---- MODULE Spec2Model ----
(***************************************************************************)
(* Model of controllers/bookController.js: the nine request handlers of    *)
(* the Book controller, run against a Book collection and an Author        *)
(* collection.  A handler is split at its awaits: the action named after   *)
(* the handler is its synchronous prefix (validation middleware included)  *)
(* up to the first await, and each following action is the completion of   *)
(* the awaited store operation together with the code that runs after it.  *)
(* Strings are sequences of character codes, so that trimming, escaping    *)
(* and the store's ordering of titles are computed, not assumed.           *)
(* Requests are served one at a time: the handlers share nothing but the   *)
(* store, and the properties below are about one invocation each.          *)
(* Identifiers are well-formed keys; log records, in order, every store    *)
(* operation issued or completed and every call on res or next.            *)
(***************************************************************************)
EXTENDS Integers, Sequences, FiniteSets, TLC

VARIABLES
    books,      \* Book collection: identifier -> [title, author, summary]
    authors,    \* Author collection: set of [_id, family_name]
    handler,    \* the handler serving the current request
    pc,         \* its position: "idle", an await label, or "done"
    req,        \* the request as the handler sees it (body fields sanitized)
    req0,       \* the request as submitted
    local,      \* the handler's local constants: book, allAuthors, allBooks, errors
    pending,    \* store operations issued and not yet completed
    log,        \* store operations and response calls, in the order they happen
    books0      \* the Book collection when the request arrived

vars == <<books, authors, handler, pc, req, req0, local, pending, log, books0>>

\* Number of distinct Book identifiers the store can hand out or be asked for.
MaxId == 3

Ids == 1..MaxId

\* The value of a failed lookup, and of a reference populate cannot resolve.
Null == [null |-> TRUE]

----------------------------------------------------------------------------
(* Strings *)

WS == {9, 10, 13, 32}

RECURSIVE ltrim(_)
ltrim(s) == IF s # <<>> /\ Head(s) \in WS THEN ltrim(Tail(s)) ELSE s

RECURSIVE rtrim(_)
rtrim(s) ==
    IF s # <<>> /\ s[Len(s)] \in WS THEN rtrim(SubSeq(s, 1, Len(s) - 1)) ELSE s

\* .trim(): whitespace removed from both ends.
trim(s) == rtrim(ltrim(s))

\* Fault: the length check accepts the empty string.
isLength_min0(s) == Len(s) >= 0

\* .isLength({ min: 1 })
isLength(s) == Len(s) >= 1

\* The entity that .escape() writes for one character.
escapeChar(c) ==
    CASE c = 38 -> <<38, 97, 109, 112, 59>>         \* &  -> &amp;
      [] c = 34 -> <<38, 113, 117, 111, 116, 59>>   \* "  -> &quot;
      [] c = 39 -> <<38, 35, 120, 50, 55, 59>>      \* '  -> &#x27;
      [] c = 60 -> <<38, 108, 116, 59>>             \* <  -> &lt;
      [] c = 62 -> <<38, 103, 116, 59>>             \* >  -> &gt;
      [] c = 47 -> <<38, 35, 120, 50, 70, 59>>      \* /  -> &#x2F;
      [] c = 92 -> <<38, 35, 120, 53, 67, 59>>      \* \  -> &#x5C;
      [] c = 96 -> <<38, 35, 57, 54, 59>>           \* `  -> &#96;
      [] OTHER -> <<c>>

RECURSIVE escape(_)
escape(s) == IF s = <<>> THEN <<>> ELSE escapeChar(Head(s)) \o escape(Tail(s))

\* Ordinal comparison of two strings, as the store orders them in a sort.
RECURSIVE StrLeq(_, _)
StrLeq(a, b) ==
    IF a = <<>> THEN TRUE
    ELSE IF b = <<>> THEN FALSE
    ELSE IF Head(a) # Head(b) THEN Head(a) < Head(b)
    ELSE StrLeq(Tail(a), Tail(b))

----------------------------------------------------------------------------
(* Request inputs *)

Body(t, a, s) == [id |-> 0, title |-> t, author |-> a, summary |-> s]

\* Submitted forms whose three fields pass validation:
\*   (" b", " x", "s "), ("<", "z", "&"), ("<", " x", "&")
\* x is an Author of AuthorsFull; z is an Author of neither collection.
ValidBodies ==
    {Body(<<32, 98>>, <<32, 120>>, <<115, 32>>),
     Body(<<60>>, <<122>>, <<38>>),
     Body(<<60>>, <<32, 120>>, <<38>>)}

\* Submitted forms with every combination of empty or blank fields.
InvalidBodies ==
    {Body(<<>>, <<32, 120>>, <<115, 32>>),
     Body(<<32, 98>>, <<>>, <<115, 32>>),
     Body(<<32, 98>>, <<32, 120>>, <<32>>),
     Body(<<32>>, <<>>, <<38>>),
     Body(<<>>, <<122>>, <<9, 32>>),
     Body(<<60>>, <<32>>, <<>>),
     Body(<<32, 32>>, <<32>>, <<>>)}

Bodies == ValidBodies \cup InvalidBodies

\* Author collections the module may find (it never writes to Author).
AuthorsFull == {[_id |-> <<120>>, family_name |-> <<110>>],
                [_id |-> <<121>>, family_name |-> <<109>>]}

AuthorCollections == {AuthorsFull, {[_id |-> <<121>>, family_name |-> <<109>>]}}

NoBody == [id |-> 0, title |-> <<>>, author |-> <<>>, summary |-> <<>>]

NoLocal == [book |-> Null, allAuthors |-> <<>>, allBooks |-> <<>>, errors |-> <<>>]

----------------------------------------------------------------------------
(* The validation chains: body(f, msg).trim().isLength({ min: 1 }).escape() *)

FieldError(path, msg, raw) ==
    IF isLength(trim(raw)) THEN <<>> ELSE <<[path |-> path, msg |-> msg]>>

\* Fault: the author chain is left out of the validation.
validationResult_noAuthor(b) ==
    FieldError("title", "Title must not be empty.", b.title)
    \o FieldError("summary", "Summary must not be empty.", b.summary)

\* validationResult(req): the failed checks, in the order of the chains.
validationResult(b) ==
    FieldError("title", "Title must not be empty.", b.title)
    \o FieldError("author", "Author must not be empty.", b.author)
    \o FieldError("summary", "Summary must not be empty.", b.summary)

\* req.body after the three chains' sanitizers have run.
sanitizeBody(b) ==
    [b EXCEPT !.title = escape(trim(@)),
              !.author = escape(trim(@)),
              !.summary = escape(trim(@))]

\* Fault: the summary is filled from the title field.
NewBook_titleAsSummary(id, b) ==
    [_id |-> id, title |-> b.title, author |-> b.author, summary |-> b.title]

\* new Book({ title, author, summary [, _id] })
NewBook(id, b) ==
    [_id |-> id, title |-> b.title, author |-> b.author, summary |-> b.summary]

\* book.url, the virtual of the Book schema.
url(book) == <<"/catalog/book/", book._id>>

BookListUrl == <<"/catalog/books">>

----------------------------------------------------------------------------
(* The document store *)

Fields(book) ==
    [title |-> book.title, author |-> book.author, summary |-> book.summary]

Doc(B, id) ==
    [_id |-> id, title |-> B[id].title, author |-> B[id].author,
     summary |-> B[id].summary]

\* Book.findById(id)
findById(B, id) == IF id \in DOMAIN B THEN Doc(B, id) ELSE Null

\* .populate("author"): the reference replaced by the Author it names, or by
\* null when no Author has that identifier.
populate(doc, A) ==
    IF doc = Null THEN Null
    ELSE [doc EXCEPT !.author =
            IF \E a \in A : a._id = doc.author
            THEN CHOOSE a \in A : a._id = doc.author
            ELSE Null]

Perms(S) ==
    {f \in [1..Cardinality(S) -> S] : \A i, j \in DOMAIN f : i # j => f[i] # f[j]}

\* Fault: the sort descends.
sortByTitle_desc(S) ==
    {f \in Perms(S) : \A i, j \in DOMAIN f : i < j => StrLeq(f[j].title, f[i].title)}

\* .sort({ title: 1 }): any order of the documents that ascends by title.
sortByTitle(S) ==
    {f \in Perms(S) : \A i, j \in DOMAIN f : i < j => StrLeq(f[i].title, f[j].title)}

\* Book.find({}, "title author").sort({ title: 1 }).populate("author")
BookFind(B, A) ==
    {[i \in DOMAIN f |-> [_id |-> f[i]._id, title |-> f[i].title,
                          author |-> populate(f[i], A).author]] :
        f \in sortByTitle({Doc(B, id) : id \in DOMAIN B})}

\* Author.find().sort({ family_name: 1 })
AuthorFind(A) ==
    {f \in Perms(A) :
        \A i, j \in DOMAIN f : i < j => StrLeq(f[i].family_name, f[j].family_name)}

\* book.save() of a new document
save(B, book) ==
    [id \in DOMAIN B \cup {book._id} |->
        IF id = book._id THEN Fields(book) ELSE B[id]]

\* Fault: the update writes the title and drops the other fields' changes.
findByIdAndUpdate_titleOnly(B, id, book) ==
    IF id \in DOMAIN B THEN [B EXCEPT ![id].title = book.title] ELSE B

\* Book.findByIdAndUpdate(id, book, {}): no upsert
findByIdAndUpdate(B, id, book) ==
    IF id \in DOMAIN B THEN [B EXCEPT ![id] = Fields(book)] ELSE B

\* Book.findByIdAndDelete(id)
findByIdAndDelete(B, id) == [i \in DOMAIN B \ {id} |-> B[i]]

----------------------------------------------------------------------------
(* The response object and the error forwarder *)

Issue(op) == [ev |-> "issue", op |-> op]

Complete(op) == [ev |-> "complete", op |-> op]

IsResponse(e) == e.ev \in {"render", "redirect", "next"}

\* The response calls of the request so far.
Calls == SelectSeq(log, IsResponse)

\* res.headersSent
headersSent(l) == \E i \in DOMAIN l : l[i].ev \in {"render", "redirect"} /\ l[i].sent

\* What a response call raises once the response has gone out.
HeadersSentErr == [message |-> "Cannot set headers after they are sent to the client"]

\* Fault: the error is forwarded without its status.
NotFoundErr_noStatus == [message |-> "Book not found"]

\* The error of a failed lookup in book_detail and book_update_get.
NotFoundErr == [message |-> "Book not found", status |-> 404]

\* next(err)
next(l, err) == Append(l, [ev |-> "next", err |-> err])

\* res.redirect(url); past the first response it throws, and asyncHandler
\* forwards what was thrown.
redirect(l, u) ==
    IF headersSent(l)
    THEN next(Append(l, [ev |-> "redirect", url |-> u, sent |-> FALSE]), HeadersSentErr)
    ELSE Append(l, [ev |-> "redirect", url |-> u, sent |-> TRUE])

\* res.render(view, locals); past the first response the view cannot be sent
\* and the failure is forwarded.
render(l, view, locals) ==
    IF headersSent(l)
    THEN next(Append(l, [ev |-> "render", view |-> view, locals |-> locals,
                         sent |-> FALSE]), HeadersSentErr)
    ELSE Append(l, [ev |-> "render", view |-> view, locals |-> locals, sent |-> TRUE])

\* Fault: the await ends at the first completion, as Promise.race would.
PromiseAll_race(p) == TRUE

\* Promise.all: the await ends when every operation has completed.
PromiseAll(p) == p = {}

----------------------------------------------------------------------------
(* The handlers *)

Init ==
    /\ books = <<>>
    /\ authors \in AuthorCollections
    /\ handler = "none"
    /\ pc = "idle"
    /\ req = [params |-> [id |-> 0], body |-> NoBody]
    /\ req0 = [params |-> [id |-> 0], body |-> NoBody]
    /\ local = NoLocal
    /\ pending = {}
    /\ log = <<>>
    /\ books0 = <<>>

\* A request arrives for handler h; the previous one has been served.
Arrive(h, id, body) ==
    /\ pc \in {"idle", "done"}
    /\ handler' = h
    /\ req0' = [params |-> [id |-> id], body |-> body]
    /\ books0' = books
    /\ UNCHANGED <<books, authors>>

\* exports.book_list, up to the await
book_list ==
    /\ Arrive("book_list", 0, NoBody)
    /\ req' = req0'
    /\ local' = NoLocal
    /\ pending' = {"Book.find"}
    /\ log' = <<Issue("Book.find")>>
    /\ pc' = "find"

\* exports.book_list, from the await on
book_list_render ==
    /\ handler = "book_list" /\ pc = "find"
    /\ \E allBooks \in BookFind(books, authors) :
        /\ local' = [local EXCEPT !.allBooks = allBooks]
        /\ log' = render(Append(log, Complete("Book.find")), "book_list",
                         [title |-> "Book List", book_list |-> allBooks])
    /\ pending' = {}
    /\ pc' = "done"
    /\ UNCHANGED <<books, authors, handler, req, req0, books0>>

\* exports.index, up to the await
index ==
    /\ Arrive("index", 0, NoBody)
    /\ req' = req0'
    /\ local' = NoLocal
    /\ pending' = {"Book.find"}
    /\ log' = <<Issue("Book.find")>>
    /\ pc' = "find"

\* exports.index, from the await on
index_render ==
    /\ handler = "index" /\ pc = "find"
    /\ \E allBooks \in BookFind(books, authors) :
        /\ local' = [local EXCEPT !.allBooks = allBooks]
        /\ log' = render(Append(log, Complete("Book.find")), "index",
                         [title |-> "Home", book_list |-> allBooks])
    /\ pending' = {}
    /\ pc' = "done"
    /\ UNCHANGED <<books, authors, handler, req, req0, books0>>

\* exports.book_detail, up to the await
book_detail ==
    /\ \E id \in Ids : Arrive("book_detail", id, NoBody)
    /\ req' = req0'
    /\ local' = NoLocal
    /\ pending' = {"Book.findById"}
    /\ log' = <<Issue("Book.findById")>>
    /\ pc' = "find"

\* exports.book_detail, from the await on
book_detail_render ==
    /\ handler = "book_detail" /\ pc = "find"
    /\ LET book == populate(findById(books, req.params.id), authors)
           l == Append(log, Complete("Book.findById"))
       IN /\ local' = [local EXCEPT !.book = book]
          /\ log' = IF book = Null
                    THEN next(l, NotFoundErr)
                    ELSE render(l, "book_detail", [title |-> book.title, book |-> book])
    /\ pending' = {}
    /\ pc' = "done"
    /\ UNCHANGED <<books, authors, handler, req, req0, books0>>

\* exports.book_create_get, up to the await
book_create_get ==
    /\ Arrive("book_create_get", 0, NoBody)
    /\ req' = req0'
    /\ local' = NoLocal
    /\ pending' = {"Author.find"}
    /\ log' = <<Issue("Author.find")>>
    /\ pc' = "authors"

\* exports.book_create_get, from the await on
book_create_get_render ==
    /\ handler = "book_create_get" /\ pc = "authors"
    /\ \E allAuthors \in AuthorFind(authors) :
        /\ local' = [local EXCEPT !.allAuthors = allAuthors]
        /\ log' = render(Append(log, Complete("Author.find")), "book_form",
                         [title |-> "Create Book", authors |-> allAuthors])
    /\ pending' = {}
    /\ pc' = "done"
    /\ UNCHANGED <<books, authors, handler, req, req0, books0>>

\* exports.book_create_post: the three validation chains, then the handler
\* up to its await.  The store has an identifier left to give the new Book.
book_create_post ==
    /\ \E body \in Bodies : Arrive("book_create_post", 0, body)
    /\ req' = [req0' EXCEPT !.body = sanitizeBody(@)]
    /\ \E id \in Ids \ DOMAIN books :
         LET errors == validationResult(req0'.body)
             book == NewBook(id, req'.body)
         IN /\ local' = [NoLocal EXCEPT !.book = book, !.errors = errors]
            /\ IF errors # <<>>
               THEN /\ pending' = {"Author.find"}
                    /\ log' = <<Issue("Author.find")>>
                    /\ pc' = "authors"
               ELSE /\ pending' = {"book.save"}
                    /\ log' = <<Issue("book.save")>>
                    /\ pc' = "save"

\* exports.book_create_post, errors branch, from the await on
book_create_post_errors ==
    /\ handler = "book_create_post" /\ pc = "authors"
    /\ \E allAuthors \in AuthorFind(authors) :
        /\ local' = [local EXCEPT !.allAuthors = allAuthors]
        /\ log' = render(Append(log, Complete("Author.find")), "book_form",
                         [title |-> "Create Book", authors |-> allAuthors,
                          book |-> local.book, errors |-> local.errors])
    /\ pending' = {}
    /\ pc' = "done"
    /\ UNCHANGED <<books, authors, handler, req, req0, books0>>

\* exports.book_create_post, valid branch, from the await on
book_create_post_save ==
    /\ handler = "book_create_post" /\ pc = "save"
    /\ books' = save(books, local.book)
    /\ log' = redirect(Append(log, Complete("book.save")), url(local.book))
    /\ pending' = {}
    /\ pc' = "done"
    /\ UNCHANGED <<authors, handler, req, req0, local, books0>>

\* exports.book_delete_get, up to the await
book_delete_get ==
    /\ \E id \in Ids : Arrive("book_delete_get", id, NoBody)
    /\ req' = req0'
    /\ local' = NoLocal
    /\ pending' = {"Book.findById"}
    /\ log' = <<Issue("Book.findById")>>
    /\ pc' = "find"

\* exports.book_delete_get, from the await on: the redirect of the missing
\* Book does not end the handler.
book_delete_get_render ==
    /\ handler = "book_delete_get" /\ pc = "find"
    /\ LET book == populate(findById(books, req.params.id), authors)
           l0 == Append(log, Complete("Book.findById"))
           l1 == IF book = Null THEN redirect(l0, BookListUrl) ELSE l0
       IN /\ local' = [local EXCEPT !.book = book]
          /\ log' = render(l1, "book_delete", [title |-> "Delete Book", book |-> book])
    /\ pending' = {}
    /\ pc' = "done"
    /\ UNCHANGED <<books, authors, handler, req, req0, books0>>

\* Fault: the delete takes the path identifier.
deleteTarget_params(r) == r.params.id

\* The identifier book_delete_post hands to findByIdAndDelete.
deleteTarget(r) == r.body.id

\* exports.book_delete_post, up to the first await
book_delete_post ==
    /\ \E id \in Ids, bid \in Ids :
         Arrive("book_delete_post", id, [NoBody EXCEPT !.id = bid])
    /\ req' = req0'
    /\ local' = NoLocal
    /\ pending' = {"Book.findById"}
    /\ log' = <<Issue("Book.findById")>>
    /\ pc' = "find"

\* exports.book_delete_post, from the first await to the second
book_delete_post_found ==
    /\ handler = "book_delete_post" /\ pc = "find"
    /\ LET book == populate(findById(books, req.params.id), authors)
           l0 == Append(log, Complete("Book.findById"))
           l1 == IF book = Null THEN redirect(l0, BookListUrl) ELSE l0
       IN /\ local' = [local EXCEPT !.book = book]
          /\ log' = Append(l1, Issue("Book.findByIdAndDelete"))
    /\ pending' = {"Book.findByIdAndDelete"}
    /\ pc' = "delete"
    /\ UNCHANGED <<books, authors, handler, req, req0, books0>>

\* exports.book_delete_post, from the second await on
book_delete_post_deleted ==
    /\ handler = "book_delete_post" /\ pc = "delete"
    /\ books' = findByIdAndDelete(books, deleteTarget(req))
    /\ log' = redirect(Append(log, Complete("Book.findByIdAndDelete")), BookListUrl)
    /\ pending' = {}
    /\ pc' = "done"
    /\ UNCHANGED <<authors, handler, req, req0, local, books0>>

\* The rest of book_update_get once Promise.all has resolved.
update_get_respond(l, book, allAuthors) ==
    IF book = Null
    THEN next(l, NotFoundErr)
    ELSE render(l, "book_form",
                [title |-> "Update Book", authors |-> allAuthors, book |-> book])

\* exports.book_update_get, up to the await: both reads are issued
book_update_get ==
    /\ \E id \in Ids : Arrive("book_update_get", id, NoBody)
    /\ req' = req0'
    /\ local' = NoLocal
    /\ pending' = {"Book.findById", "Author.find"}
    /\ log' = <<Issue("Book.findById"), Issue("Author.find")>>
    /\ pc' = "all"

\* exports.book_update_get: the Book lookup completes
book_update_get_book ==
    /\ handler = "book_update_get" /\ pc = "all"
    /\ "Book.findById" \in pending
    /\ pending' = pending \ {"Book.findById"}
    /\ LET book == populate(findById(books, req.params.id), authors)
           l == Append(log, Complete("Book.findById"))
       IN /\ local' = [local EXCEPT !.book = book]
          /\ IF PromiseAll(pending')
             THEN /\ log' = update_get_respond(l, book, local.allAuthors)
                  /\ pc' = "done"
             ELSE /\ log' = l
                  /\ pc' = "all"
    /\ UNCHANGED <<books, authors, handler, req, req0, books0>>

\* exports.book_update_get: the Author list arrives
book_update_get_authors ==
    /\ handler = "book_update_get" /\ pc = "all"
    /\ "Author.find" \in pending
    /\ pending' = pending \ {"Author.find"}
    /\ \E allAuthors \in AuthorFind(authors) :
        LET l == Append(log, Complete("Author.find"))
        IN /\ local' = [local EXCEPT !.allAuthors = allAuthors]
           /\ IF PromiseAll(pending')
              THEN /\ log' = update_get_respond(l, local.book, allAuthors)
                   /\ pc' = "done"
              ELSE /\ log' = l
                   /\ pc' = "all"
    /\ UNCHANGED <<books, authors, handler, req, req0, books0>>

\* exports.book_update_post: the three validation chains, then the handler
\* up to its await
book_update_post ==
    /\ \E id \in Ids, body \in Bodies : Arrive("book_update_post", id, body)
    /\ req' = [req0' EXCEPT !.body = sanitizeBody(@)]
    /\ LET errors == validationResult(req0'.body)
           book == NewBook(req'.params.id, req'.body)
       IN /\ local' = [NoLocal EXCEPT !.book = book, !.errors = errors]
          /\ IF errors # <<>>
             THEN /\ pending' = {"Author.find"}
                  /\ log' = <<Issue("Author.find")>>
                  /\ pc' = "authors"
             ELSE /\ pending' = {"Book.findByIdAndUpdate"}
                  /\ log' = <<Issue("Book.findByIdAndUpdate")>>
                  /\ pc' = "update"

\* exports.book_update_post, errors branch, from the await on
book_update_post_errors ==
    /\ handler = "book_update_post" /\ pc = "authors"
    /\ \E allAuthors \in AuthorFind(authors) :
        /\ local' = [local EXCEPT !.allAuthors = allAuthors]
        /\ log' = render(Append(log, Complete("Author.find")), "book_form",
                         [title |-> "Update Book", authors |-> allAuthors,
                          book |-> local.book, errors |-> local.errors])
    /\ pending' = {}
    /\ pc' = "done"
    /\ UNCHANGED <<books, authors, handler, req, req0, books0>>

\* exports.book_update_post, valid branch, from the await on
book_update_post_updated ==
    /\ handler = "book_update_post" /\ pc = "update"
    /\ books' = findByIdAndUpdate(books, req.params.id, local.book)
    /\ log' = redirect(Append(log, Complete("Book.findByIdAndUpdate")), url(local.book))
    /\ pending' = {}
    /\ pc' = "done"
    /\ UNCHANGED <<authors, handler, req, req0, local, books0>>

Next ==
    \/ book_list \/ book_list_render
    \/ index \/ index_render
    \/ book_detail \/ book_detail_render
    \/ book_create_get \/ book_create_get_render
    \/ book_create_post \/ book_create_post_errors \/ book_create_post_save
    \/ book_delete_get \/ book_delete_get_render
    \/ book_delete_post \/ book_delete_post_found \/ book_delete_post_deleted
    \/ book_update_get \/ book_update_get_book \/ book_update_get_authors
    \/ book_update_post \/ book_update_post_errors \/ book_update_post_updated

Spec == Init /\ [][Next]_vars

----------------------------------------------------------------------------
(* Vocabulary of the properties *)

\* s is empty or holds whitespace only.
Blank(s) == \A i \in 1..Len(s) : s[i] \in {9, 10, 13, 32}

BlankFields(b) ==
    {f \in {"title", "author", "summary"} :
        Blank(CASE f = "title" -> b.title [] f = "author" -> b.author
                [] OTHER -> b.summary)}

MessageOf(f) ==
    CASE f = "title" -> "Title must not be empty."
      [] f = "author" -> "Author must not be empty."
      [] OTHER -> "Summary must not be empty."

Submit == handler \in {"book_create_post", "book_update_post"} /\ pc # "idle"

Finished(h) == handler = h /\ pc = "done"

\* l lists every Author once, in ascending order of family name.
IsSortedAuthorList(l) ==
    /\ Len(l) = Cardinality(authors)
    /\ {l[i] : i \in 1..Len(l)} = authors
    /\ \A i, j \in 1..Len(l) : i < j => StrLeq(l[i].family_name, l[j].family_name)

IsWrite(e) ==
    /\ e.ev \in {"issue", "complete"}
    /\ e.op \in {"book.save", "Book.findByIdAndUpdate", "Book.findByIdAndDelete"}

\* Position of the first event e of the log, 0 when it has none.
IndexOf(e) ==
    IF \E i \in 1..Len(log) : log[i] = e
    THEN CHOOSE i \in 1..Len(log) : log[i] = e /\ \A j \in 1..(i - 1) : log[j] # e
    ELSE 0

\* What the submitted form stores: each field trimmed, then escaped.
Submitted(b) ==
    [title |-> escape(trim(b.title)), author |-> escape(trim(b.author)),
     summary |-> escape(trim(b.summary))]

RedirectTo(u) == [ev |-> "redirect", url |-> u, sent |-> TRUE]

----------------------------------------------------------------------------
(* Properties *)

\* C1: a Create-submit or Update-submit with a blank title, author or summary
\* writes nothing to the Book store, issues no redirect, and answers with one
\* render of book_form that carries exactly one message for each blank field
\* and the whole Author list in ascending order of family name.
C1_InvalidSubmitRendersForm ==
    (Submit /\ BlankFields(req0.body) # {}) =>
        /\ books = books0
        /\ \A i \in 1..Len(log) : ~IsWrite(log[i]) /\ log[i].ev # "redirect"
        /\ pc = "done" =>
            /\ Len(Calls) = 1
            /\ Calls[1].ev = "render" /\ Calls[1].view = "book_form" /\ Calls[1].sent
            /\ LET errors == Calls[1].locals.errors
               IN /\ Len(errors) = Cardinality(BlankFields(req0.body))
                  /\ \A f \in BlankFields(req0.body) :
                        \E i \in 1..Len(errors) :
                            errors[i].path = f /\ errors[i].msg = MessageOf(f)
            /\ IsSortedAuthorList(Calls[1].locals.authors)

\* C1 witness: an Update-submit for a stored Book with two blank fields has
\* been answered with the form and its two messages.
C1_Witness ==
    /\ Finished("book_update_post")
    /\ req0.params.id \in DOMAIN books0
    /\ Cardinality(BlankFields(req0.body)) = 2
    /\ Len(Calls) = 1 /\ Calls[1].ev = "render"
    /\ Len(Calls[1].locals.errors) = 2
    /\ Cardinality(authors) = 2

\* C2: every Book of the store has a non-empty title, a non-empty author
\* reference and a non-empty summary, whatever requests have been served.
C2_StoredBooksNonEmpty ==
    \A id \in DOMAIN books :
        /\ books[id].title # <<>>
        /\ books[id].author # <<>>
        /\ books[id].summary # <<>>

\* C2 witness: an Update-submit has rewritten a Book while two Books are stored.
C2_Witness ==
    /\ Finished("book_update_post")
    /\ books # books0
    /\ Cardinality(DOMAIN books) >= 2

\* C3: a Create-submit whose three fields are non-blank adds exactly one Book,
\* under an identifier no stored Book had, holding the trimmed and escaped
\* fields; the Books stored before are unchanged; the only response is a
\* redirect to the new Book's URL, issued after the save has completed.
C3_ValidCreateAddsOneBook ==
    (Finished("book_create_post") /\ BlankFields(req0.body) = {}) =>
        /\ Cardinality(DOMAIN books \ DOMAIN books0) = 1
        /\ DOMAIN books0 \subseteq DOMAIN books
        /\ \A id \in DOMAIN books0 : books[id] = books0[id]
        /\ \A id \in DOMAIN books \ DOMAIN books0 :
            /\ books[id] = Submitted(req0.body)
            /\ Calls = <<RedirectTo(url([_id |-> id]))>>
        /\ 0 < IndexOf(Complete("book.save"))
        /\ \A i \in 1..Len(log) :
            log[i].ev = "redirect" => IndexOf(Complete("book.save")) < i

\* C3 witness: a valid Create-submit that needed trimming has added a Book to
\* a store that already held one.
C3_Witness ==
    /\ Finished("book_create_post")
    /\ BlankFields(req0.body) = {}
    /\ req0.body.title # req.body.title
    /\ DOMAIN books0 # {}
    /\ DOMAIN books # DOMAIN books0

ValidUpdate == Finished("book_update_post") /\ BlankFields(req0.body) = {}

\* C4 as stated: a valid Update-submit for any path identifier leaves a Book
\* at that identifier, holding the submitted fields, and redirects to the URL
\* built from the path identifier.
C4_AnyIdHoldsBookAfterUpdate ==
    ValidUpdate =>
        /\ req0.params.id \in DOMAIN books
        /\ books[req0.params.id] = Submitted(req0.body)
        /\ Calls = <<RedirectTo(url([_id |-> req0.params.id]))>>

\* C4 amended: a valid Update-submit whose path identifier names a stored Book
\* leaves that Book under the same identifier with the submitted fields, and
\* every other Book as it was; when no Book has the path identifier the store
\* is unchanged.  Either way the only response is a redirect to the URL built
\* from the path identifier, issued after the update has completed.
C4_UpdateInPlace ==
    ValidUpdate =>
        /\ DOMAIN books = DOMAIN books0
        /\ \A id \in DOMAIN books0 :
            books[id] = IF id = req0.params.id THEN Submitted(req0.body)
                        ELSE books0[id]
        /\ Calls = <<RedirectTo(url([_id |-> req0.params.id]))>>
        /\ 0 < IndexOf(Complete("Book.findByIdAndUpdate"))
        /\ IndexOf(Complete("Book.findByIdAndUpdate")) < IndexOf(Calls[1])

\* C4 witness: a valid Update-submit has changed all three fields of a stored
\* Book while another Book is stored.
C4_Witness ==
    /\ ValidUpdate
    /\ req0.params.id \in DOMAIN books0
    /\ Cardinality(DOMAIN books0) >= 2
    /\ books[req0.params.id].title # books0[req0.params.id].title
    /\ books[req0.params.id].author # books0[req0.params.id].author
    /\ books[req0.params.id].summary # books0[req0.params.id].summary

\* C5: a Detail or Update-form request whose path identifier names no stored
\* Book forwards one error with status 404 and message "Book not found",
\* renders nothing and redirects nowhere; when the Book is stored the handler
\* renders its view once and forwards no error.  The store is unchanged.
C5_MissingBookForwards404 ==
    \A h \in {"book_detail", "book_update_get"} :
        (handler = h /\ pc # "idle") =>
            /\ books = books0
            /\ pc = "done" =>
                IF req0.params.id \in DOMAIN books0
                THEN /\ Len(Calls) = 1
                     /\ Calls[1].ev = "render" /\ Calls[1].sent
                     /\ Calls[1].view = (IF h = "book_detail" THEN "book_detail"
                                         ELSE "book_form")
                     /\ Calls[1].locals.book._id = req0.params.id
                ELSE Calls = <<[ev |-> "next",
                                err |-> [message |-> "Book not found", status |-> 404]]>>

\* C5 witness: a Detail request for an identifier that names no Book, made
\* while other Books are stored, has been answered with the forwarded error.
C5_Witness ==
    /\ Finished("book_detail")
    /\ req0.params.id \notin DOMAIN books0
    /\ DOMAIN books0 # {}
    /\ Len(Calls) = 1 /\ Calls[1].ev = "next"

\* C6: a Delete-submit removes the Book named by the body identifier, whether
\* or not the path identifier names a Book and whether or not the two
\* identifiers are equal: afterwards no Book has the body identifier, every
\* other Book is as it was, and the response sent is a redirect to the list.
C6_DeleteByBodyId ==
    Finished("book_delete_post") =>
        /\ req0.body.id \notin DOMAIN books
        /\ DOMAIN books = DOMAIN books0 \ {req0.body.id}
        /\ \A id \in DOMAIN books : books[id] = books0[id]
        /\ Calls # <<>> /\ Calls[1] = RedirectTo(BookListUrl)

\* C6 witness: the path identifier named no Book, the body identifier named a
\* stored Book, and that Book is gone while the others remain.
C6_Witness ==
    /\ Finished("book_delete_post")
    /\ req0.params.id \notin DOMAIN books0
    /\ req0.body.id \in DOMAIN books0
    /\ req0.body.id \notin DOMAIN books
    /\ Cardinality(DOMAIN books) >= 1

\* C7: a Delete-form request whose path identifier names no stored Book
\* redirects to the book list and does not render the confirmation view.
C7_MissingBookRedirectsWithoutRender ==
    (Finished("book_delete_get") /\ req0.params.id \notin DOMAIN books0) =>
        /\ Calls = <<RedirectTo(BookListUrl)>>
        /\ \A i \in 1..Len(log) : log[i].ev # "render"

Listing == handler \in {"book_list", "index"} /\ pc # "idle"

\* The list a finished List or Home request has rendered.
Rendered == Calls[1].locals.book_list

\* The rendered list holds every stored Book once, in ascending order of title.
ListsEveryBookByTitle ==
    /\ Len(Calls) = 1
    /\ Calls[1].ev = "render" /\ Calls[1].sent
    /\ Calls[1].view = handler
    /\ Len(Rendered) = Cardinality(DOMAIN books)
    /\ {Rendered[i]._id : i \in 1..Len(Rendered)} = DOMAIN books
    /\ \A i \in 1..Len(Rendered) : Rendered[i].title = books[Rendered[i]._id].title
    /\ \A i, j \in 1..Len(Rendered) :
        i < j => StrLeq(Rendered[i].title, Rendered[j].title)
    /\ (books = <<>>) => (Rendered = <<>>)

\* C8 as stated: List and Home render every stored Book once, in ascending
\* order of title, each with its author reference replaced by the full Author
\* entity, and leave the store unchanged.
C8_EveryAuthorResolved ==
    Listing =>
        /\ books = books0
        /\ pc = "done" =>
            /\ ListsEveryBookByTitle
            /\ \A i \in 1..Len(Rendered) :
                /\ Rendered[i].author \in authors
                /\ Rendered[i].author._id = books[Rendered[i]._id].author

\* C8 amended: List and Home render every stored Book once, in ascending order
\* of title, each with its author reference replaced by the full Author entity
\* when an Author with that identifier exists and by null when none does; an
\* empty store renders an empty list; the store is unchanged.
C8_ListSortedAndPopulated ==
    Listing =>
        /\ books = books0
        /\ pc = "done" =>
            /\ ListsEveryBookByTitle
            /\ \A i \in 1..Len(Rendered) :
                LET ref == books[Rendered[i]._id].author
                IN IF \E a \in authors : a._id = ref
                   THEN Rendered[i].author \in authors /\ Rendered[i].author._id = ref
                   ELSE Rendered[i].author = Null

\* C8 witness: Home has rendered three Books with two different titles, one
\* of them with an author reference that names no Author.
C8_Witness ==
    /\ Finished("index")
    /\ Len(Calls) = 1
    /\ Len(Rendered) = 3
    /\ Rendered[1].title # Rendered[3].title
    /\ \E i \in 1..3 : Rendered[i].author = Null
    /\ \E i \in 1..3 : Rendered[i].author \in authors

\* The response of Update-form, from the request and the two collections alone.
UpdateFormResponse ==
    IF req0.params.id \in DOMAIN books0
    THEN [ev |-> "render", view |-> "book_form", sent |-> TRUE,
          locals |-> [title |-> "Update Book",
                      authors |-> CHOOSE l \in AuthorFind(authors) : TRUE,
                      book |-> populate(Doc(books0, req0.params.id), authors)]]
    ELSE [ev |-> "next", err |-> NotFoundErr]

\* C9: Update-form issues the Book lookup and the Author fetch before either
\* completes, responds only after both have completed, and its response does
\* not depend on which of the two completed first.
C9_UpdateFormJoinsBothReads ==
    (handler = "book_update_get" /\ pc # "idle") =>
        /\ {log[1], log[2]} = {Issue("Book.findById"), Issue("Author.find")}
        /\ \A i \in 1..Len(log) :
            IsResponse(log[i]) =>
                /\ 0 < IndexOf(Complete("Book.findById"))
                /\ IndexOf(Complete("Book.findById")) < i
                /\ 0 < IndexOf(Complete("Author.find"))
                /\ IndexOf(Complete("Author.find")) < i
        /\ pc = "done" => Calls = <<UpdateFormResponse>>

\* C9 witness: Update-form has rendered a stored Book after the Author list
\* arrived first and the Book lookup second.
C9_Witness ==
    /\ Finished("book_update_get")
    /\ req0.params.id \in DOMAIN books0
    /\ IndexOf(Complete("Author.find")) < IndexOf(Complete("Book.findById"))
    /\ Len(Calls) = 1 /\ Calls[1].ev = "render"
    /\ Cardinality(authors) = 2

\* C10: every handler invocation issues exactly one response action, a render
\* or a redirect or a forwarded error, and none after it; Delete-submit issues
\* exactly one redirect, after its delete-by-identifier has completed.
C10_ExactlyOneResponse ==
    /\ pc # "idle" => Len(Calls) <= 1
    /\ pc = "done" => Len(Calls) = 1
    /\ Finished("book_delete_post") =>
        /\ Calls = <<RedirectTo(BookListUrl)>>
        /\ IndexOf(Complete("Book.findByIdAndDelete")) < IndexOf(Calls[1])

====
